---- MODULE Spec2Model ----
(***************************************************************************)
(* A model of app.py: the users and conversations tables, the login        *)
(* session of each browser, and the request handlers /login, /logout,      *)
(* /register, /dashboard, /teacher, /teacher/user/<id>, /api/my_history,   *)
(* /api/initial and /api/continue.                                         *)
(*                                                                         *)
(* Text is a sequence of one-character strings, bytes are the integers     *)
(* 0..255, so that strip, split, b64encode and b64decode are computed the  *)
(* way Python computes them.                                               *)
(***************************************************************************)
EXTENDS Integers, Sequences, FiniteSets, TLC

VARIABLES users, conversations, session, reg, resp, prov, issued, bound

vars == <<users, conversations, session, reg, resp, prov, issued, bound>>

\* users and conversations are the two tables; session[c] is the user id in
\* the session cookie of browser c; reg[c] is the /register request of c that
\* is under way; resp is the reply to the request handled last.
\* History, which no handler reads: prov[i] tells how row i of users came to
\* be, issued holds the outputImage of every /api/initial with the image it
\* encodes, bound[c] is the user c logged in as and has not logged out from.

(***************************************************************************)
(* Bounds of the model.                                                    *)
(***************************************************************************)
\* the conversations table holds at most this many rows
MaxConvos == 2

\* the browsers (cookie jars) that send requests; each sends one request at a
\* time, two of them make two requests concurrent
Clients == {"c1", "c2"}

(***************************************************************************)
(* Text helpers.                                                           *)
(***************************************************************************)
\* str.strip(): drop leading and trailing whitespace
RECURSIVE lstrip(_)
lstrip(s) == IF s # <<>> /\ Head(s) = " " THEN lstrip(Tail(s)) ELSE s

RECURSIVE rstrip(_)
rstrip(s) ==
    IF s # <<>> /\ s[Len(s)] = " " THEN rstrip(SubSeq(s, 1, Len(s) - 1)) ELSE s

strip(s) == rstrip(lstrip(s))

\* the position of the first ch in s, 0 when s holds none
find(s, ch) ==
    IF \E i \in 1..Len(s) : s[i] = ch
    THEN CHOOSE i \in 1..Len(s) : s[i] = ch /\ \A j \in 1..(i - 1) : s[j] # ch
    ELSE 0

\* s.split(ch, 1): one piece when s holds no ch, else the text before the first
\* ch and all the text after it
split1(s, ch) ==
    IF find(s, ch) = 0 THEN <<s>>
    ELSE <<SubSeq(s, 1, find(s, ch) - 1), SubSeq(s, find(s, ch) + 1, Len(s))>>

\* s.split(ch): every piece
RECURSIVE split(_, _)
split(s, ch) ==
    IF find(s, ch) = 0 THEN <<s>>
    ELSE <<SubSeq(s, 1, find(s, ch) - 1)>>
             \o split(SubSeq(s, find(s, ch) + 1, Len(s)), ch)

(***************************************************************************)
(* base64, as the standard library computes it.                            *)
(***************************************************************************)
B64Alphabet ==
    << "A","B","C","D","E","F","G","H","I","J","K","L","M","N","O","P",
       "Q","R","S","T","U","V","W","X","Y","Z","a","b","c","d","e","f",
       "g","h","i","j","k","l","m","n","o","p","q","r","s","t","u","v",
       "w","x","y","z","0","1","2","3","4","5","6","7","8","9","+","/" >>

\* the 6-bit value of a character, -1 for a character outside the alphabet
b64value(ch) ==
    IF \E i \in 1..Len(B64Alphabet) : B64Alphabet[i] = ch
    THEN (CHOOSE i \in 1..Len(B64Alphabet) : B64Alphabet[i] = ch) - 1
    ELSE -1

b64char(v) == B64Alphabet[v + 1]

\* base64.b64encode(bytes).decode("utf-8")
RECURSIVE b64encode(_)
b64encode(bs) ==
    IF Len(bs) = 0 THEN <<>>
    ELSE IF Len(bs) = 1 THEN
        << b64char(bs[1] \div 4), b64char((bs[1] % 4) * 16), "=", "=" >>
    ELSE IF Len(bs) = 2 THEN
        << b64char(bs[1] \div 4),
           b64char((bs[1] % 4) * 16 + bs[2] \div 16),
           b64char((bs[2] % 16) * 4), "=" >>
    ELSE
        << b64char(bs[1] \div 4),
           b64char((bs[1] % 4) * 16 + bs[2] \div 16),
           b64char((bs[2] % 16) * 4 + bs[3] \div 64),
           b64char(bs[3] % 64) >> \o b64encode(SubSeq(bs, 4, Len(bs)))

\* binascii.a2b_base64 without strict mode, which base64.b64decode(s) calls:
\* a character outside the alphabet is skipped, a pad that completes a quad
\* ends the input, and data that stops inside a quad raises binascii.Error.
\* quad is the position in the quad, left the bits carried over, pads the
\* pads seen in a row, out the bytes so far.
RECURSIVE a2b_base64(_, _, _, _, _)
a2b_base64(s, quad, left, pads, out) ==
    IF s = <<>> THEN [ok |-> quad = 0, bytes |-> out]
    ELSE IF Head(s) = "=" THEN
        IF quad >= 2 /\ quad + pads + 1 >= 4
        THEN [ok |-> TRUE, bytes |-> out]
        ELSE a2b_base64(Tail(s), quad, left, IF quad >= 2 THEN pads + 1 ELSE pads, out)
    ELSE IF b64value(Head(s)) = -1 THEN a2b_base64(Tail(s), quad, left, pads, out)
    ELSE
        LET v == b64value(Head(s)) IN
        CASE quad = 0 -> a2b_base64(Tail(s), 1, v, 0, out)
          [] quad = 1 ->
               a2b_base64(Tail(s), 2, v % 16, 0, Append(out, left * 4 + v \div 16))
          [] quad = 2 ->
               a2b_base64(Tail(s), 3, v % 4, 0, Append(out, left * 16 + v \div 4))
          [] quad = 3 ->
               a2b_base64(Tail(s), 0, 0, 0, Append(out, left * 64 + v))

\* base64.b64decode(s): ok is FALSE where it raises binascii.Error
b64decode(s) == a2b_base64(s, 0, 0, 0, <<>>)

(***************************************************************************)
(* The tables and the session.                                             *)
(***************************************************************************)
\* session[c] when the browser holds no logged-in user id
Anonymous == 0

\* what a request may submit as the username, the password and the role box
Usernames == { <<" ">>, <<"a">>, <<" ", "b", " ">> }

Passwords == { <<>>, <<"p">> }

LoginPasswords == Passwords \cup { <<"q">> }

Methods == {"GET", "POST"}

\* bcrypt.generate_password_hash(password).decode("utf-8"): a one-way value,
\* kept as the password under a tag; check_password_hash compares with it
generate_password_hash(password) == <<"$2b$">> \o password

check_password_hash(password_hash, password) ==
    password_hash = generate_password_hash(password)

\* SELECT COUNT(*) AS c FROM users
get_user_count == Len(users)

\* SELECT * FROM users WHERE username = ?  (the rows, as a set)
users_by_username(username) ==
    { i \in 1..Len(users) : users[i].username = username }

\* load_user: the row of the id the session holds, none for an unknown id
is_authenticated(c) == session[c] \in 1..Len(users)

current_user(c) == users[session[c]]

\* the request's reply, and what the handler did: route and client name the
\* request, form is what a /register carried, arg the user id in the URL,
\* image the lastImage a /api/continue carried,
\* data the rows it returned, xform what was passed to
\* generate_image_from_sketch
NoTransform == [called |-> FALSE, bytes |-> <<>>, mime |-> <<>>]

NoForm == [method |-> "", username |-> <<>>, password |-> <<>>]

Reply(c, route, outcome, status, location) ==
    [client |-> c, route |-> route, outcome |-> outcome, status |-> status,
     location |-> location, form |-> NoForm, arg |-> 0, data |-> <<>>,
     image |-> <<>>, xform |-> NoTransform]

\* a /register request: pc is "insert" between its count of the users and its
\* INSERT, "done" after the INSERT; first_user, username, password_hash and
\* is_teacher are the handler's locals. caller, submitted, fresh and outcome
\* are history: the id in the caller's session, the role box as submitted,
\* whether no row held the username when the request began, how it ended.
IdleReg ==
    [pc |-> "idle", first_user |-> FALSE, username |-> <<>>,
     password_hash |-> <<>>, is_teacher |-> FALSE,
     caller |-> Anonymous, submitted |-> FALSE, fresh |-> FALSE,
     outcome |-> ""]

\* the browser has no /register in flight: it sends one request at a time
Ready(c) == reg[c].pc # "insert"

Init ==
    /\ users = <<>>
    /\ conversations = <<>>
    /\ session = [c \in Clients |-> Anonymous]
    /\ reg = [c \in Clients |-> IdleReg]
    /\ resp = Reply("c1", "start", "", 0, "")
    /\ bound = [c \in Clients |-> Anonymous]
    /\ prov = <<>>
    /\ issued = {}

(***************************************************************************)
(* /, /login, /logout, /dashboard                                          *)
(***************************************************************************)
\* @login_required: an anonymous request is sent to login_view
Unauthorized(c, route) == Reply(c, route, "Unauthenticated", 302, "login")

index(c) ==
    /\ Ready(c)
    /\ resp' = IF is_authenticated(c)
               THEN Reply(c, "index", "Redirect", 302, "dashboard")
               ELSE Reply(c, "index", "Redirect", 302, "login")
    /\ UNCHANGED <<users, conversations, session, reg, prov, issued, bound>>

\* login_user(user): the id enters this browser's session
login_user(c, user_id) == [session EXCEPT ![c] = user_id]

login(c, method, username_field, password) ==
    /\ Ready(c)
    /\ LET username == strip(username_field)
           rows == users_by_username(username)
       IN  IF is_authenticated(c) THEN
               /\ resp' = Reply(c, "login", "Redirect", 302, "dashboard")
               /\ UNCHANGED <<session, bound>>
           ELSE IF method = "GET" THEN
               /\ resp' = Reply(c, "login", "Form", 200, "")
               /\ UNCHANGED <<session, bound>>
           ELSE IF username = <<>> \/ password = <<>> THEN
               /\ resp' = Reply(c, "login", "MissingFields", 200, "")
               /\ UNCHANGED <<session, bound>>
           ELSE IF rows = {}
                   \/ \A i \in rows :
                        ~check_password_hash(users[i].password_hash, password)
           THEN
               /\ resp' = Reply(c, "login", "InvalidCredentials", 200, "")
               /\ UNCHANGED <<session, bound>>
           ELSE
               /\ session' = login_user(c, CHOOSE i \in rows : TRUE)
               /\ bound' = [bound EXCEPT ![c] = CHOOSE i \in rows : TRUE]
               /\ resp' = Reply(c, "login", "LoggedIn", 302, "dashboard")
    /\ UNCHANGED <<users, conversations, reg, prov, issued>>

\* logout_user(): the id leaves this browser's session
logout_user(c) == [session EXCEPT ![c] = Anonymous]

logout(c) ==
    /\ Ready(c)
    /\ IF ~is_authenticated(c) THEN
           /\ resp' = Unauthorized(c, "logout")
           /\ UNCHANGED <<session, bound>>
       ELSE
           /\ session' = logout_user(c)
           /\ bound' = [bound EXCEPT ![c] = Anonymous]
           /\ resp' = Reply(c, "logout", "LoggedOut", 302, "login")
    /\ UNCHANGED <<users, conversations, reg, prov, issued>>

dashboard(c) ==
    /\ Ready(c)
    /\ resp' = IF ~is_authenticated(c) THEN Unauthorized(c, "dashboard")
               ELSE Reply(c, "dashboard", "Page", 200, "")
    /\ UNCHANGED <<users, conversations, session, reg, prov, issued, bound>>

(***************************************************************************)
(* /register: the count of the users, then, in a second statement on a new *)
(* connection, the INSERT. Other requests may run between the two.         *)
(***************************************************************************)
\* Variant for C2: a guard that forgets the teacher flag
may_register_when_logged_in(c, first_user) ==
    first_user \/ is_authenticated(c)

\* the guard of lines 221-224: who may go on to create an account
may_register(c, first_user) ==
    first_user \/ (is_authenticated(c) /\ current_user(c).is_teacher)

\* Variant for C1: a handler without line 236
role_as_submitted(first_user, is_teacher_box) == is_teacher_box

\* Variant for C10: a handler that leaves the role to the column's DEFAULT 0
role_by_default(first_user, is_teacher_box) == FALSE

\* lines 229-236: the role the new row gets
role_to_store(first_user, is_teacher_box) ==
    IF first_user THEN TRUE ELSE is_teacher_box

register(c, method, username_field, password, is_teacher_box) ==
    /\ Ready(c)
    /\ LET user_count == get_user_count
           first_user == user_count = 0
           username == strip(username_field)
           form == [method |-> method, username |-> username_field,
                    password |-> password]
       IN  IF ~may_register(c, first_user) THEN
               /\ resp' = [Reply(c, "register", "Forbidden", 302, "login")
                             EXCEPT !.form = form]
               /\ reg' = [reg EXCEPT ![c] = IdleReg]
           ELSE IF method = "GET" THEN
               /\ resp' = [Reply(c, "register", "Form", 200, "")
                             EXCEPT !.form = form]
               /\ reg' = [reg EXCEPT ![c] = IdleReg]
           ELSE IF username = <<>> \/ password = <<>> THEN
               /\ resp' = [Reply(c, "register", "MissingFields", 200, "")
                             EXCEPT !.form = form]
               /\ reg' = [reg EXCEPT ![c] = IdleReg]
           ELSE
               /\ resp' = [Reply(c, "register", "InFlight", 0, "")
                             EXCEPT !.form = form]
               /\ reg' = [reg EXCEPT ![c] =
                            [pc |-> "insert",
                             first_user |-> first_user,
                             username |-> username,
                             password_hash |-> generate_password_hash(password),
                             is_teacher |-> role_to_store(first_user, is_teacher_box),
                             caller |-> session[c],
                             submitted |-> is_teacher_box,
                             fresh |-> users_by_username(username) = {},
                             outcome |-> ""]]
    /\ UNCHANGED <<users, conversations, session, prov, issued, bound>>

\* Variant for C3: a table without the UNIQUE constraint
never_violates_unique(username) == FALSE

\* username TEXT UNIQUE NOT NULL: the INSERT raises sqlite3.IntegrityError
\* when a row holds the username already
violates_unique(username) == users_by_username(username) # {}

\* the request of c is over: the username it asked for, whether no row held
\* that username when the request began, and how it ended
Done(c, outcome) ==
    [IdleReg EXCEPT !.pc = "done", !.username = reg[c].username,
                    !.fresh = reg[c].fresh, !.outcome = outcome]

register_insert(c) ==
    /\ reg[c].pc = "insert"
    /\ IF violates_unique(reg[c].username) THEN
           /\ resp' = Reply(c, "register_insert", "DuplicateUsername", 200, "")
           /\ reg' = [reg EXCEPT ![c] = Done(c, "DuplicateUsername")]
           /\ UNCHANGED <<users, prov>>
       ELSE
           /\ users' = Append(users,
                  [id |-> Len(users) + 1,
                   username |-> reg[c].username,
                   password_hash |-> reg[c].password_hash,
                   is_teacher |-> reg[c].is_teacher])
           /\ prov' = Append(prov,
                  [caller |-> reg[c].caller,
                   first_user |-> reg[c].first_user,
                   submitted |-> reg[c].submitted])
           /\ resp' = Reply(c, "register_insert", "Created", 302,
                            IF reg[c].first_user THEN "login" ELSE "teacher_panel")
           /\ reg' = [reg EXCEPT ![c] = Done(c, "Created")]
    /\ UNCHANGED <<conversations, session, issued, bound>>

(***************************************************************************)
(* /teacher, /teacher/user/<id>, /api/my_history                           *)
(***************************************************************************)
\* the order of the characters of a username in SQLite's BINARY collation
Collation == <<" ", "a", "b">>

code(ch) == CHOOSE i \in 1..Len(Collation) : Collation[i] = ch

RECURSIVE text_less(_, _)
text_less(s, t) ==
    IF t = <<>> THEN FALSE
    ELSE IF s = <<>> THEN TRUE
    ELSE IF Head(s) # Head(t) THEN code(Head(s)) < code(Head(t))
    ELSE text_less(Tail(s), Tail(t))

\* ORDER BY u.is_teacher DESC, u.username ASC
roster_before(u, v) ==
    IF u.is_teacher # v.is_teacher THEN u.is_teacher
    ELSE text_less(u.username, v.username)

\* COUNT(c.id) of the LEFT JOIN, per user
convo_count(user_id) ==
    Cardinality({ i \in 1..Len(conversations) :
                    conversations[i].user_id = user_id })

roster ==
    LET sorted == SortSeq(users, roster_before)
    IN  [i \in 1..Len(sorted) |-> <<sorted[i].id, convo_count(sorted[i].id)>>]

\* Variant for C7: a query without its WHERE clause
select_all_conversations(user_id) == conversations

\* SELECT ... FROM conversations WHERE user_id = ? ORDER BY datetime(created_at)

conversations_of(user_id) ==
    SortSeq(SelectSeq(conversations, LAMBDA r : r.user_id = user_id),
            LAMBDA r, q : r.created_at < q.created_at)

row_ids(rows) == [i \in 1..Len(rows) |-> <<rows[i].id>>]

\* Variant for C9: pages without the check of the teacher flag
everyone_is_teacher(c) == TRUE

\* lines 277 and 302: may the logged-in user see the teacher pages

teacher_access(c) == current_user(c).is_teacher

teacher_panel(c) ==
    /\ Ready(c)
    /\ resp' = IF ~is_authenticated(c) THEN Unauthorized(c, "teacher_panel")
               ELSE IF ~teacher_access(c)
               THEN Reply(c, "teacher_panel", "Forbidden", 302, "dashboard")
               ELSE [Reply(c, "teacher_panel", "Page", 200, "")
                       EXCEPT !.data = roster]
    /\ UNCHANGED <<users, conversations, session, reg, prov, issued, bound>>

teacher_user_view(c, user_id) ==
    /\ Ready(c)
    /\ resp' = IF ~is_authenticated(c)
               THEN [Unauthorized(c, "teacher_user_view") EXCEPT !.arg = user_id]
               ELSE IF ~teacher_access(c)
               THEN [Reply(c, "teacher_user_view", "Forbidden", 302, "dashboard")
                       EXCEPT !.arg = user_id]
               ELSE IF user_id \notin 1..Len(users)
               THEN [Reply(c, "teacher_user_view", "NotFound", 302, "teacher_panel")
                       EXCEPT !.arg = user_id]
               ELSE [Reply(c, "teacher_user_view", "Page", 200, "")
                       EXCEPT !.arg = user_id,
                              !.data = row_ids(conversations_of(user_id))]
    /\ UNCHANGED <<users, conversations, session, reg, prov, issued, bound>>

api_my_history(c) ==
    /\ Ready(c)
    /\ resp' = IF ~is_authenticated(c) THEN Unauthorized(c, "api_my_history")
               ELSE [Reply(c, "api_my_history", "OK", 200, "")
                       EXCEPT !.data = row_ids(conversations_of(current_user(c).id))]
    /\ UNCHANGED <<users, conversations, session, reg, prov, issued, bound>>

(***************************************************************************)
(* /api/initial and /api/continue                                          *)
(***************************************************************************)
ImagePng == <<"i", "m", "a", "g", "e", "/", "p", "n", "g">>

\* what an upload may carry: the bytes of the sketch (0 to 4 of them, so that
\* every padding of base64 occurs), and the Content-Type of the part, in which
\* the client may write any text
Sketches == { <<>>, <<77, 97>>, <<0, 16, 131>>, <<255, 254, 253, 1>> }

Mimetypes == { <<>>, <<"i", "m", "a", "g", "e", "/", "g", "i", "f">>,
               <<"i", "m", "a", "g", "e", ":", "x">> }

Prompts == { <<>>, <<" ">>, <<" ", "c", "a", "t">> }

\* f"data:{mime};base64,{payload}"
data_url(mime, payload) ==
    <<"d", "a", "t", "a", ":">> \o mime
        \o <<";", "b", "a", "s", "e", "6", "4", ",">> \o payload

\* the stub of generate_image_from_sketch: the input image, encoded, under
\* the input's mime type, and a text made from the prompt
generate_image_from_sketch(image_bytes, mime_type, prompt) ==
    [image_base64 |-> b64encode(image_bytes),
     image_mime_type |-> mime_type,
     text |-> <<"(Stub) Model response for prompt: ">> \o prompt]

\* the INSERT INTO conversations of both handlers; created_at is the time of
\* the insert, which goes on from one insert to the next
insert_conversation(user_id, prompt, input_image, output_image, text) ==
    Append(conversations,
           [id |-> Len(conversations) + 1,
            user_id |-> user_id,
            prompt |-> prompt,
            input_image |-> input_image,
            output_image |-> output_image,
            model_response_text |-> text,
            created_at |-> Len(conversations) + 1])

\* Variant for C8: a handler that inserts its row before it calls the model
store_then_transform(c, route, image_bytes, mime_type, prompt, input_image, last_image, backend_ok) ==
    LET result == generate_image_from_sketch(image_bytes, mime_type, prompt)
        output_data_url == data_url(result.image_mime_type, result.image_base64)
        called == [called |-> TRUE, bytes |-> image_bytes, mime |-> mime_type]
    IN  /\ conversations' =
               insert_conversation(current_user(c).id, prompt, input_image,
                                   output_data_url, result.text)
        /\ issued' = issued
        /\ resp' = IF ~backend_ok
                   THEN [Reply(c, route, "TransformFailed", 500, "")
                           EXCEPT !.image = last_image, !.xform = called]
                   ELSE [Reply(c, route, "OK", 200, "")
                           EXCEPT !.data = <<<<Len(conversations) + 1>>>>,
                                  !.image = last_image, !.xform = called]

\* lines 376-409 and 443-470: the call of the model, then the INSERT. When the
\* model behind generate_image_from_sketch raises (backend_ok is FALSE) the
\* exception leaves the handler before the INSERT.
transform_and_store(c, route, image_bytes, mime_type, prompt, input_image, last_image, backend_ok) ==
    LET result == generate_image_from_sketch(image_bytes, mime_type, prompt)
        output_data_url == data_url(result.image_mime_type, result.image_base64)
        called == [called |-> TRUE, bytes |-> image_bytes, mime |-> mime_type]
    IN  IF ~backend_ok THEN
            /\ resp' = [Reply(c, route, "TransformFailed", 500, "")
                          EXCEPT !.image = last_image, !.xform = called]
            /\ UNCHANGED <<conversations, issued>>
        ELSE
            /\ conversations' =
                   insert_conversation(current_user(c).id, prompt, input_image,
                                       output_data_url, result.text)
            /\ issued' = IF route = "api_initial"
                         THEN issued \cup {[url |-> output_data_url,
                                            bytes |-> image_bytes,
                                            mime |-> result.image_mime_type]}
                         ELSE issued
            /\ resp' = [Reply(c, route, "OK", 200, "")
                          EXCEPT !.data = <<<<Len(conversations) + 1>>>>,
                                 !.image = last_image, !.xform = called]

api_initial(c, has_file, image_bytes, mimetype, prompt_field, backend_ok) ==
    /\ Ready(c)
    /\ Len(conversations) < MaxConvos
    /\ LET prompt == strip(prompt_field)
           mime_type == IF mimetype = <<>> THEN ImagePng ELSE mimetype
       IN  IF ~is_authenticated(c) THEN
               /\ resp' = Unauthorized(c, "api_initial")
               /\ UNCHANGED <<conversations, issued>>
           ELSE IF ~has_file THEN
               /\ resp' = Reply(c, "api_initial", "MissingSketch", 400, "")
               /\ UNCHANGED <<conversations, issued>>
           ELSE IF prompt = <<>> THEN
               /\ resp' = Reply(c, "api_initial", "MissingPrompt", 400, "")
               /\ UNCHANGED <<conversations, issued>>
           ELSE
               transform_and_store(c, "api_initial", image_bytes, mime_type, prompt,
                                   data_url(mime_type, b64encode(image_bytes)),
                                   <<>>, backend_ok)
    /\ UNCHANGED <<users, session, reg, prov, bound>>

\* Variant for C6: a parse that takes piece [0] of the header, not [1]
parse_data_url_piece_0(s) ==
    LET parts == split1(s, ",")
        pieces == split(split(parts[1], ";")[1], ":")
    IN  IF Len(parts) # 2 \/ Len(pieces) < 2
        THEN [ok |-> FALSE, mime_type |-> <<>>, b64data |-> <<>>]
        ELSE [ok |-> TRUE, mime_type |-> pieces[1], b64data |-> parts[2]]

\* lines 435-439: header, b64data = s.split(",", 1) and
\* mime_type = header.split(";")[0].split(":")[1]; ok is FALSE where one of
\* them raises (no comma to unpack, no second piece), which the except catches
parse_data_url(s) ==
    LET parts == split1(s, ",")
        pieces == split(split(parts[1], ";")[1], ":")
    IN  IF Len(parts) # 2 \/ Len(pieces) < 2
        THEN [ok |-> FALSE, mime_type |-> <<>>, b64data |-> <<>>]
        ELSE [ok |-> TRUE, mime_type |-> pieces[2], b64data |-> parts[2]]

\* the texts a client may send as lastImage: nothing, an outputImage it was
\* given before, or one of these
OtherImages ==
    { <<"a", "b", "c">>,
      <<"d", "a", "t", "a", ":", "i", "m", "a", "g", "e", "/", "p", "n", "g">>,
      <<"i", "m", "a", "g", "e", "/", "p", "n", "g", ";",
        "b", "a", "s", "e", "6", "4", ",", "T", "Q", "=", "=">>,
      <<"x", ":", "i", "m", "a", "g", "e", "/", "p", "n", "g", ";",
        "b", "a", "s", "e", "6", "4", ",", "T", "Q", "=", "=">>,
      data_url(ImagePng, <<"T">>),
      data_url(ImagePng, <<"T", "Q", "=">>),
      data_url(ImagePng, <<"!", "!">>) }

PriorImages ==
    { conversations[i].output_image : i \in 1..Len(conversations) }

LastImages == {<<>>} \cup OtherImages \cup PriorImages

api_continue(c, prompt_field, last_image_data_url, backend_ok) ==
    /\ Ready(c)
    /\ Len(conversations) < MaxConvos
    /\ LET prompt == strip(prompt_field)
           parsed == parse_data_url(last_image_data_url)
           decoded == b64decode(parsed.b64data)
       IN  IF ~is_authenticated(c) THEN
               /\ resp' = Unauthorized(c, "api_continue")
               /\ UNCHANGED <<conversations, issued>>
           ELSE IF prompt = <<>> THEN
               /\ resp' = [Reply(c, "api_continue", "MissingPrompt", 400, "")
                             EXCEPT !.image = last_image_data_url]
               /\ UNCHANGED <<conversations, issued>>
           ELSE IF last_image_data_url = <<>> THEN
               /\ resp' = Reply(c, "api_continue", "MissingLastImage", 400, "")
               /\ UNCHANGED <<conversations, issued>>
           ELSE IF ~parsed.ok THEN
               /\ resp' = [Reply(c, "api_continue", "InvalidDataUrl", 400, "")
                             EXCEPT !.image = last_image_data_url]
               /\ UNCHANGED <<conversations, issued>>
           ELSE IF ~decoded.ok THEN
               \* binascii.Error, raised outside the try: the request fails
               /\ resp' = [Reply(c, "api_continue", "UnhandledException", 500, "")
                             EXCEPT !.image = last_image_data_url]
               /\ UNCHANGED <<conversations, issued>>
           ELSE
               transform_and_store(c, "api_continue", decoded.bytes,
                                   parsed.mime_type, prompt, last_image_data_url,
                                   last_image_data_url, backend_ok)
    /\ UNCHANGED <<users, session, reg, prov, bound>>

(***************************************************************************)
(* The program: any browser sends any request, or its /register goes on.   *)
(* A GET carries no form.                                                  *)
(***************************************************************************)
\* the accounts: two browsers, whose requests interleave
Next ==
    \E c \in Clients :
        \/ login(c, "GET", <<>>, <<>>)
        \/ \E u \in Usernames, p \in LoginPasswords : login(c, "POST", u, p)
        \/ logout(c)
        \/ register(c, "GET", <<>>, <<>>, FALSE)
        \/ \E u \in Usernames, p \in Passwords, t \in BOOLEAN :
               register(c, "POST", u, p, t)
        \/ register_insert(c)
        \/ teacher_panel(c)
        \/ \E id \in 1..(Len(users) + 1) : teacher_user_view(c, id)

Spec == Init /\ [][Next]_vars

\* the pages: two browsers logged in at the same time, the accounts made by
\* the first, one sketch, and as lastImage an outputImage returned before
NextPages ==
    \/ \E u \in {<<"a">>, <<"b">>}, t \in BOOLEAN :
           register("c1", "POST", u, <<"p">>, t)
    \/ register_insert("c1")
    \/ \E c \in Clients :
        \/ \E u \in {<<"a">>, <<"b">>} : login(c, "POST", u, <<"p">>)
        \/ logout(c)
        \/ index(c)
        \/ dashboard(c)
        \/ teacher_panel(c)
        \/ \E id \in 1..(Len(users) + 1) : teacher_user_view(c, id)
        \/ api_my_history(c)
        \/ api_initial(c, TRUE, <<77>>, <<>>, <<"c", "a", "t">>, TRUE)
        \/ \E s \in PriorImages :
               api_continue(c, <<"c", "a", "t">>, s, TRUE)

SpecPages == Init /\ [][NextPages]_vars

\* the images: one browser, one account, every sketch and every lastImage;
\* a request without a sketch carries no image
NextImages ==
    \/ login("c1", "POST", <<"a">>, <<"p">>)
    \/ logout("c1")
    \/ register("c1", "POST", <<"a">>, <<"p">>, FALSE)
    \/ register_insert("c1")
    \/ \E p \in Prompts : api_initial("c1", FALSE, <<>>, <<>>, p, TRUE)
    \/ \E b \in Sketches, m \in Mimetypes, p \in Prompts, ok \in BOOLEAN :
           api_initial("c1", TRUE, b, m, p, ok)
    \/ \E p \in Prompts, s \in LastImages, ok \in BOOLEAN :
           api_continue("c1", p, s, ok)

SpecImages == Init /\ [][NextImages]_vars

(***************************************************************************)
(* What the properties below speak of.                                     *)
(***************************************************************************)
Last(q) == q[Len(q)]

\* a text with a character that is not a blank
NonBlank(t) == \E i \in 1..Len(t) : t[i] # " "

\* the user id is that of a teacher
TeacherId(id) == id \in 1..Len(users) /\ users[id].is_teacher

\* the ids of the rows a reply lists
Listed(data) == { data[i][1] : i \in 1..Len(data) }

\* the ids of the conversations of a user
OwnedBy(id) ==
    { conversations[i].id : i \in { j \in 1..Len(conversations) :
                                      conversations[j].user_id = id } }

\* a payload in canonical base64: quads of alphabet characters, the last
\* one with at most two pads at its end
CanonicalBase64(t) ==
    /\ Len(t) % 4 = 0
    /\ \E k \in 0..2 :
          /\ k <= Len(t)
          /\ \A i \in 1..(Len(t) - k) : b64value(t[i]) # -1
          /\ \A i \in (Len(t) - k + 1)..Len(t) : t[i] = "="

\* the text has the shape data:<mime>;base64,<payload>
WellFormedDataUrl(t) ==
    \E i \in 6..Len(t) :
        /\ SubSeq(t, 1, 5) = <<"d", "a", "t", "a", ":">>
        /\ i + 7 <= Len(t)
        /\ SubSeq(t, i, i + 7) = <<";", "b", "a", "s", "e", "6", "4", ",">>
        /\ \A j \in 6..(i - 1) : t[j] \notin {",", ";", ":"}
        /\ CanonicalBase64(SubSeq(t, i + 8, Len(t)))

(***************************************************************************)
(* C1. A POST /register that counts no users and carries a username and a  *)
(* password that are not empty needs no login; the row it inserts is a     *)
(* teacher's whatever role was submitted; and once it is over a user       *)
(* exists. (A username of blanks only is empty to the handler, which       *)
(* strips it.)                                                             *)
(***************************************************************************)
C1_FirstUserIsTeacher ==
    [][ \A c \in Clients :
          /\ (/\ resp'.route = "register" /\ resp'.client = c
              /\ Len(users) = 0
              /\ resp'.form.method = "POST"
              /\ NonBlank(resp'.form.username)
              /\ resp'.form.password # <<>>)
                => /\ resp'.outcome = "InFlight"
                   /\ reg'[c].pc = "insert"
          /\ (/\ resp'.route = "register_insert" /\ resp'.client = c
              /\ reg[c].pc = "insert" /\ reg[c].first_user)
                => /\ Len(users') > 0
                   /\ resp'.outcome \in {"Created", "DuplicateUsername"}
                   /\ resp'.outcome = "Created"
                        => /\ Len(users') = Len(users) + 1
                           /\ Last(users').username = reg[c].username
                           /\ Last(users').is_teacher
    ]_vars

\* an anonymous browser submitted the student role to the empty table and
\* its row was inserted
C1_Witness ==
    /\ resp.route = "register_insert"
    /\ resp.outcome = "Created"
    /\ Len(users) = 1
    /\ prov[1].caller = Anonymous
    /\ ~prov[1].submitted
    /\ prov[1].first_user

(***************************************************************************)
(* C2. A /register that counts one user or more, from a browser that is    *)
(* not logged in or is logged in as a user who is no teacher, is refused   *)
(* with a redirect to the login page, and inserts no row.                  *)
(***************************************************************************)
C2_NonTeacherRefused ==
    [][ \A c \in Clients :
          (/\ resp'.route = "register" /\ resp'.client = c
           /\ Len(users) # 0
           /\ ~TeacherId(session[c]))
             => /\ resp'.outcome = "Forbidden"
                /\ resp'.status = 302
                /\ resp'.location = "login"
                /\ users' = users
                /\ reg'[c].pc # "insert"
    ]_vars

\* a logged-in student posted a complete form and was refused
C2_Witness ==
    /\ resp.route = "register"
    /\ resp.outcome = "Forbidden"
    /\ resp.form.method = "POST"
    /\ NonBlank(resp.form.username)
    /\ resp.form.password # <<>>
    /\ session[resp.client] \in 1..Len(users)
    /\ ~users[session[resp.client]].is_teacher

(***************************************************************************)
(* C3. No two rows of users hold the same username; and of two /register   *)
(* requests that ran at the same time, were both let through, and asked    *)
(* for the same username, which no row held when they began, one inserted  *)
(* the row and the other was told the username exists.                     *)
(***************************************************************************)
C3_OneRegistrationWins ==
    /\ \A i, j \in 1..Len(users) :
          i # j => users[i].username # users[j].username
    /\ \A c \in Clients :
          reg[c].pc = "done"
            => Cardinality({ i \in 1..Len(users) :
                               users[i].username = reg[c].username }) = 1
    /\ \A c, d \in Clients :
          (/\ c # d
           /\ reg[c].pc = "done" /\ reg[d].pc = "done"
           /\ reg[c].username = reg[d].username
           /\ reg[c].fresh /\ reg[d].fresh)
             => {reg[c].outcome, reg[d].outcome} = {"Created", "DuplicateUsername"}

\* two such requests are over
C3_Witness ==
    /\ reg["c1"].pc = "done" /\ reg["c2"].pc = "done"
    /\ reg["c1"].username = reg["c2"].username
    /\ reg["c1"].fresh /\ reg["c2"].fresh
    /\ reg["c2"].outcome = "Created"
    /\ Len(users) = 2

(***************************************************************************)
(* C4. Only the first row of users has its teacher flag from the policy    *)
(* for the first user; every other row was inserted for a caller who was   *)
(* logged in as a teacher, with the role that caller submitted. The code   *)
(* does not do this when two requests count the users before either        *)
(* inserts.                                                                *)
(***************************************************************************)
C4_OnlyFirstUserByPolicy ==
    \A i \in 1..Len(users) :
        IF i = 1 THEN prov[i].first_user
        ELSE /\ ~prov[i].first_user
             /\ prov[i].caller \in 1..(i - 1)
             /\ users[prov[i].caller].is_teacher
             /\ users[i].is_teacher = prov[i].submitted

(***************************************************************************)
(* C10. Once a user exists a teacher exists, and the number of users never *)
(* goes down.                                                              *)
(***************************************************************************)
C10_TeacherRemains ==
    [][ /\ Len(users') >= Len(users)
        /\ SubSeq(users', 1, Len(users)) = users
        /\ Len(users') > 0 => \E i \in 1..Len(users') : users'[i].is_teacher
    ]_vars

\* a teacher and a student exist
C10_Witness ==
    /\ Len(users) = 2
    /\ \E i \in 1..Len(users) : ~users[i].is_teacher
    /\ \E i \in 1..Len(users) : users[i].is_teacher

(***************************************************************************)
(* C7. /api/my_history lists the conversations of the user the browser is  *)
(* logged in as, and no others; /teacher/user/<id> lists the conversations *)
(* of user <id>, and no others; and a conversation is stored under the id  *)
(* of the user whose browser sent it.                                      *)
(***************************************************************************)
C7_RowsOfTheRightUser ==
    /\ (resp.route = "api_my_history" /\ resp.outcome = "OK")
          => /\ Listed(resp.data) = OwnedBy(bound[resp.client])
             /\ Len(resp.data) = Cardinality(Listed(resp.data))
    /\ (resp.route = "teacher_user_view" /\ resp.outcome = "Page")
          => /\ Listed(resp.data) = OwnedBy(resp.arg)
             /\ Len(resp.data) = Cardinality(Listed(resp.data))
    /\ (resp.route \in {"api_initial", "api_continue"} /\ resp.outcome = "OK")
          => /\ Last(conversations).user_id = bound[resp.client]
             /\ resp.data = <<<<Last(conversations).id>>>>

\* a history of one row, while another user has a row too
C7_Witness ==
    /\ resp.route = "api_my_history"
    /\ resp.outcome = "OK"
    /\ Len(resp.data) = 1
    /\ Len(conversations) = 2
    /\ \E i \in 1..Len(conversations) :
          conversations[i].user_id # bound[resp.client]
    /\ \E d \in Clients : d # resp.client /\ bound[d] \notin {Anonymous, bound[resp.client]}

(***************************************************************************)
(* C9. /teacher and /teacher/user/<id> show their page only to a browser   *)
(* that has logged in as a teacher and has not logged out since; a browser *)
(* that is not logged in is sent to the login page, one logged in as a     *)
(* user who is no teacher is sent to the dashboard, both without data.     *)
(***************************************************************************)
C9_TeacherPagesForTeachersOnly ==
    resp.route \in {"teacher_panel", "teacher_user_view"}
      => /\ resp.outcome \in {"Page", "NotFound"} => TeacherId(bound[resp.client])
         /\ bound[resp.client] = Anonymous
              => /\ resp.outcome = "Unauthenticated"
                 /\ resp.location = "login"
                 /\ resp.data = <<>>
         /\ (bound[resp.client] # Anonymous /\ ~TeacherId(bound[resp.client]))
              => /\ resp.outcome = "Forbidden"
                 /\ resp.location = "dashboard"
                 /\ resp.data = <<>>

\* a student asked for the conversations of a user who has some
C9_Witness ==
    /\ resp.route = "teacher_user_view"
    /\ resp.outcome = "Forbidden"
    /\ bound[resp.client] # Anonymous
    /\ OwnedBy(resp.arg) # {}

(***************************************************************************)
(* C8. /api/initial and /api/continue insert their row after the model has *)
(* returned: a request that is refused, and one whose model call fails,    *)
(* leave the conversations as they were, and one that succeeds adds one    *)
(* row.                                                                    *)
(***************************************************************************)
C8_RowOnlyAfterTransform ==
    [][ resp'.route \in {"api_initial", "api_continue"}
          => IF resp'.outcome = "OK"
             THEN /\ resp'.xform.called
                  /\ Len(conversations') = Len(conversations) + 1
                  /\ SubSeq(conversations', 1, Len(conversations)) = conversations
             ELSE conversations' = conversations
    ]_vars

\* the model failed on the image of a /api/continue
C8_Witness ==
    /\ resp.route = "api_continue"
    /\ resp.outcome = "TransformFailed"
    /\ resp.xform.called

(***************************************************************************)
(* C5. A /api/continue with a prompt and a lastImage that is not of the    *)
(* shape data:<mime>;base64,<payload> is answered 400, invalid data URL.   *)
(* The code does not do this: b64decode is called outside the try.         *)
(***************************************************************************)
C5_MalformedImageIsRejected ==
    (/\ resp.route = "api_continue"
     /\ resp.outcome \notin {"Unauthenticated", "MissingPrompt", "MissingLastImage"}
     /\ ~WellFormedDataUrl(resp.image))
       => /\ resp.outcome = "InvalidDataUrl"
          /\ resp.status = 400

(***************************************************************************)
(* C6. When /api/continue is sent, as lastImage, the outputImage of an     *)
(* earlier /api/initial, the bytes and the mime type it passes to the      *)
(* model are those the earlier call produced, and the row it stores has    *)
(* that outputImage, unchanged, as its input image. The code does this     *)
(* only for a mime type without a colon, which its split cuts at.          *)
(***************************************************************************)
RoundTrip(e) ==
    (/\ resp.route = "api_continue"
     /\ resp.outcome \notin {"Unauthenticated", "MissingPrompt"}
     /\ resp.image = e.url)
       => /\ resp.xform.called
          /\ resp.xform.bytes = e.bytes
          /\ resp.xform.mime = e.mime
          /\ resp.outcome = "OK" => Last(conversations).input_image = e.url

\* for every mime type
C6_RoundTripAnyMime == \A e \in issued : RoundTrip(e)

\* what holds: for every mime type without a comma, a semicolon or a colon
C6_RoundTrip ==
    \A e \in issued :
        (\A i \in 1..Len(e.mime) : e.mime[i] \notin {",", ";", ":"})
          => RoundTrip(e)

\* four bytes, under the mime type of the upload, came back
C6_Witness ==
    /\ resp.route = "api_continue"
    /\ resp.outcome = "OK"
    /\ resp.xform.bytes = <<255, 254, 253, 1>>
    /\ resp.xform.mime = <<"i", "m", "a", "g", "e", "/", "g", "i", "f">>
    /\ \E e \in issued : e.url = resp.image

====
